---- MODULE Spec2Model ----
(***************************************************************************)
(* session-reflect: a Stop / PreCompact hook (src/bin/session-reflect.rs). *)
(*                                                                         *)
(* Text is modelled as a sequence of one-character strings, so that        *)
(* starts_with, contains, trim, lines and join are computed character by   *)
(* character.  The one non-ASCII character of the source, the em dash of   *)
(* PRECOMPACT_PREFIX, is the single element "U+2014".                      *)
(*                                                                         *)
(* Three specifications share the module:                                  *)
(*   SpecPrompt   load_reflection_prompt / strip_frontmatter_and_h1        *)
(*   SpecAnalyze  analyze_transcript, one transcript line per step         *)
(*   Spec         main, one hook invocation (and the host's re-invocation  *)
(*                after a block)                                           *)
(***************************************************************************)
EXTENDS Naturals, Sequences, FiniteSets

VARIABLES
    \* ---- load_reflection_prompt (SpecPrompt)
    s_pc,            \* position in load_reflection_prompt
    pattern_file,    \* the pattern file on disk: [readable, text]
    content,         \* let content  (line 182)
    stripped,        \* let stripped (line 183)
    loaded,          \* the returned Option<String>: [some, text]
    first_loaded,    \* what the first pass returned, kept for the second pass
    pass,            \* 1: the authored file; 2: the sanitized text, sanitized again
    \* ---- analyze_transcript (SpecAnalyze; main holds its result in the same names)
    a_pc,            \* position in analyze_transcript
    transcript,      \* the transcript text read from disk: [read, lines]
    line_no,         \* how many of transcript.lines() the for loop has consumed
    user_messages,
    tool_using_turns,
    has_memory_write,
    \* ---- main (Spec)
    pc,              \* position in main
    stdin,           \* standard input: [readable, payload]
    home,            \* std::env::var("HOME"): an Option
    transcript_file, \* the file at TranscriptPath: [readable, lines]
    input,           \* let input: the parsed HookInput (ok: from_str returned Ok)
    is_pre_compact,  \* let is_pre_compact (line 46)
    out,             \* the lines printed to standard output, as JSON objects
    exit_code,       \* the ExitCode main returned ("running" until it returns)
    invocation       \* 1; 2 when the host runs the hook again after a block

promptVars == <<s_pc, pattern_file, content, stripped, loaded, first_loaded, pass>>

analyzeVars ==
    <<a_pc, transcript, line_no, user_messages, tool_using_turns, has_memory_write>>

mainVars ==
    <<pc, stdin, home, transcript_file, input, is_pre_compact, out, exit_code,
      invocation>>

vars == <<promptVars, analyzeVars, mainVars>>

(***************************************************************************)
(* Bounds of the model.                                                    *)
(***************************************************************************)
\* lines of a pattern file (SpecPrompt)
MaxDocLines == 4

\* lines of a transcript scanned line by line (SpecAnalyze)
MaxLines == 3

\* human lines of a session transcript (Spec): above USER_MSG_THRESHOLD
MaxHumanLines == 5

\* one-call assistant turns of a session transcript (Spec): above TOOL_TURN_THRESHOLD
MaxToolTurns == 11

(***************************************************************************)
(* Text primitives (Rust str methods used by the source).                  *)
(***************************************************************************)
Min(S) == CHOOSE x \in S : \A y \in S : x <= y

Max(S) == CHOOSE x \in S : \A y \in S : x >= y

\* char::is_whitespace, over the characters the model uses
IsWhitespace(c) == c \in {" ", "\n", "\r", "\t"}

\* str::trim
Trim(s) ==
    LET keep == {i \in 1..Len(s) : ~IsWhitespace(s[i])}
    IN  IF keep = {} THEN <<>> ELSE SubSeq(s, Min(keep), Max(keep))

\* str::starts_with
StartsWith(s, p) == Len(p) <= Len(s) /\ SubSeq(s, 1, Len(p)) = p

\* str::contains
Contains(s, p) ==
    \E i \in 0..(Len(s) - Len(p)) : SubSeq(s, i + 1, i + Len(p)) = p

\* One line of str::lines: the terminating "\n" is gone; a "\r" before it goes too.
StripCR(line) ==
    IF line /= <<>> /\ line[Len(line)] = "\r"
    THEN SubSeq(line, 1, Len(line) - 1)
    ELSE line

\* str::lines: split at "\n" (or "\r\n"); a final line needs no terminator and
\* an empty final piece is no line.
RECURSIVE SplitLines(_, _, _, _)
SplitLines(s, i, cur, acc) ==
    IF i > Len(s)
    THEN IF cur = <<>> THEN acc ELSE Append(acc, cur)
    ELSE IF s[i] = "\n"
         THEN SplitLines(s, i + 1, <<>>, Append(acc, StripCR(cur)))
         ELSE SplitLines(s, i + 1, Append(cur, s[i]), acc)

Lines(s) == SplitLines(s, 1, <<>>, <<>>)

\* [&str]::join
RECURSIVE Join(_, _)
Join(ls, sep) ==
    IF ls = <<>> THEN <<>>
    ELSE IF Len(ls) = 1 THEN ls[1]
    ELSE ls[1] \o sep \o Join(Tail(ls), sep)

\* The sequences over S of length at most n.
SeqsUpTo(S, n) == UNION { [1..k -> S] : k \in 0..n }

LF == <<"\n">>

CRLF == <<"\r", "\n">>

(***************************************************************************)
(* strip_frontmatter_and_h1 (lines 193-233).                               *)
(***************************************************************************)
FrontmatterDelimiter == <<"-", "-", "-">>

H1Marker == <<"#", " ">>

\* A slip: the delimiter compared without trim().
IsDelimiter_NoTrim(line) == line = FrontmatterDelimiter

\* line.trim() == "---"  (lines 202 and 217)
IsDelimiter(line) == Trim(line) = FrontmatterDelimiter

\* A slip: starts_with("#"), which takes every heading level for the title.
IsH1_AnyLevel(line) == StartsWith(line, <<"#">>)

\* line.starts_with("# ")  (lines 206 and 224)
IsH1(line) == StartsWith(line, H1Marker)

\* for line in lines { ... }  (lines 215-230)
RECURSIVE StripRest(_, _, _, _, _, _)
StripRest(lines, i, in_frontmatter, frontmatter_done, h1_removed, result) ==
    IF i > Len(lines) THEN result
    ELSE IF in_frontmatter
         THEN IF IsDelimiter(lines[i])
              THEN StripRest(lines, i + 1, FALSE, TRUE, h1_removed, result)
              ELSE StripRest(lines, i + 1, TRUE, frontmatter_done, h1_removed, result)
         ELSE IF frontmatter_done /\ ~h1_removed /\ IsH1(lines[i])
              THEN StripRest(lines, i + 1, FALSE, frontmatter_done, TRUE, result)
              ELSE StripRest(lines, i + 1, FALSE, frontmatter_done, h1_removed,
                             Append(result, lines[i]))

\* the first line (lines 201-213), then the loop, then result.join("\n")
strip_frontmatter_and_h1(text) ==
    LET lines == Lines(text)
    IN  IF lines = <<>>
        THEN Join(<<>>, LF)
        ELSE IF IsDelimiter(lines[1])
             THEN Join(StripRest(lines, 2, TRUE, FALSE, FALSE, <<>>), LF)
             ELSE IF IsH1(lines[1])
                  THEN Join(StripRest(lines, 2, FALSE, TRUE, TRUE, <<>>), LF)
                  ELSE Join(StripRest(lines, 2, FALSE, TRUE, FALSE, <<lines[1]>>), LF)

(***************************************************************************)
(* load_reflection_prompt (lines 178-190).                                 *)
(***************************************************************************)
None == [some |-> FALSE, text |-> <<>>]

Some(t) == [some |-> TRUE, text |-> t]

\* if stripped.trim().is_empty() { None } else { Some(stripped.trim()) }
TrimToOption(s) == IF Trim(s) = <<>> THEN None ELSE Some(Trim(s))

\* a file on disk: read_to_string fails (missing, a directory, not UTF-8) or gives text
Unreadable == [readable |-> FALSE, text |-> <<>>]

File(t) == [readable |-> TRUE, text |-> t]

\* the whole function, for its callers in main
load_reflection_prompt(file) ==
    IF ~file.readable THEN None
    ELSE TrimToOption(strip_frontmatter_and_h1(file.text))

(***************************************************************************)
(* analyze_transcript (lines 106-175).                                     *)
(*                                                                         *)
(* A transcript line is the serde_json::Value it parses to, reduced to     *)
(* what the code reads: whether it parses at all, its "type", and          *)
(* message.content; a content item is its "type", "name" and               *)
(* input.file_path.  Absent stands for a field that is missing or is no    *)
(* JSON string (get(..).and_then(as_str) is None).  A transcript is the     *)
(* sequence of its lines, as transcript.lines() yields them.               *)
(***************************************************************************)
Absent == "(absent)"

MemoryLearnings ==
    <<"M", "e", "m", "o", "r", "y", "/", "L", "e", "a", "r", "n", "i", "n",
      "g", "s", "/">>

MemoryDecisions ==
    <<"M", "e", "m", "o", "r", "y", "/", "D", "e", "c", "i", "s", "i", "o",
      "n", "s", "/">>

\* const MEMORY_PATHS (line 33)
MEMORY_PATHS == <<MemoryLearnings, MemoryDecisions>>

Item(type, name, file_path) == [type |-> type, name |-> name, file_path |-> file_path]

NoContent == [kind |-> "absent", items |-> <<>>]

NotAnArray == [kind |-> "other", items |-> <<>>]

Array(items) == [kind |-> "array", items |-> items]

Entry(type, c) == [json |-> TRUE, type |-> type, content |-> c]

\* A line serde_json::from_str rejects (line 114).
NotJson == [json |-> FALSE, type |-> Absent, content |-> NoContent]

\* A slip: only "Edit" counts as a file-mutating tool.
IsFileTool_EditOnly(tool_name) == tool_name = "Edit"

\* tool_name == "Edit" || tool_name == "Write"  (line 152, negated there)
IsFileTool(tool_name) == tool_name = "Edit" \/ tool_name = "Write"

\* for memory_path in MEMORY_PATHS { if file_path.contains(memory_path) .. }  (162-166)
TouchesMemory(file_path) ==
    \E k \in 1..Len(MEMORY_PATHS) : Contains(file_path, MEMORY_PATHS[k])

\* item.get("name").and_then(|n| n.as_str()).unwrap_or("")  (line 151)
ToolName(item) == IF item.name = Absent THEN "" ELSE item.name

\* item.get("input")...and_then(|p| p.as_str()).unwrap_or("")  (lines 156-160)
FilePath(item) == IF item.file_path.some THEN item.file_path.text ELSE <<>>

\* A slip: every typed content item counts as a tool use.
IsToolUse_AnyTyped(item) == item.type /= Absent

\* item_type == "tool_use"  (lines 140-147)
IsToolUse(item) == item.type /= Absent /\ item.type = "tool_use"

\* for item in content { ... }  (lines 139-167)
RECURSIVE ScanItems(_, _, _, _)
ScanItems(items, i, turn_has_tool_use, memory_write) ==
    IF i > Len(items)
    THEN [turn_has_tool_use |-> turn_has_tool_use, has_memory_write |-> memory_write]
    ELSE IF ~IsToolUse(items[i])
         THEN ScanItems(items, i + 1, turn_has_tool_use, memory_write)
         ELSE IF ~IsFileTool(ToolName(items[i]))
              THEN ScanItems(items, i + 1, TRUE, memory_write)
              ELSE ScanItems(items, i + 1, TRUE,
                             memory_write \/ TouchesMemory(FilePath(items[i])))

\* The three counters of analyze_transcript.
Counters(u, t, m) ==
    [user_messages |-> u, tool_using_turns |-> t, has_memory_write |-> m]

\* One iteration of for line in transcript.lines()  (lines 111-172)
AnalyzeLine(acc, line) ==
    IF ~line.json THEN acc
    ELSE LET entry_type == IF line.type = Absent THEN "" ELSE line.type
         IN  IF entry_type = "human"
             THEN [acc EXCEPT !.user_messages = @ + 1]
             ELSE IF entry_type /= "assistant" THEN acc
             ELSE IF line.content.kind /= "array" THEN acc
             ELSE LET scan == ScanItems(line.content.items, 1, FALSE,
                                        acc.has_memory_write)
                  IN  Counters(acc.user_messages,
                               IF scan.turn_has_tool_use
                               THEN acc.tool_using_turns + 1
                               ELSE acc.tool_using_turns,
                               scan.has_memory_write)

\* The whole function, for its caller in main.
RECURSIVE AnalyzeFrom(_, _, _)
AnalyzeFrom(lines, i, acc) ==
    IF i > Len(lines) THEN acc
    ELSE AnalyzeFrom(lines, i + 1, AnalyzeLine(acc, lines[i]))

analyze_transcript(lines) == AnalyzeFrom(lines, 1, Counters(0, 0, FALSE))

(***************************************************************************)
(* Transcript lines of the model.                                          *)
(***************************************************************************)
PathLearningsFoo ==
    <<"M", "e", "m", "o", "r", "y", "/", "L", "e", "a", "r", "n", "i", "n",
      "g", "s", "/", "f", "o", "o", ".", "m", "d">>

PathDecisionsAbs ==
    <<"/", "h", "/", "D", "a", "t", "a", "/", "M", "e", "m", "o", "r", "y",
      "/", "D", "e", "c", "i", "s", "i", "o", "n", "s", "/", "d", ".", "m",
      "d">>

PathNoSlash ==
    <<"n", "o", "t", "e", "s", "/", "M", "e", "m", "o", "r", "y", "/", "L",
      "e", "a", "r", "n", "i", "n", "g", "s">>

PathSource ==
    <<"s", "r", "c", "/", "m", "a", "i", "n", ".", "r", "s">>

TextItem == Item("text", Absent, None)

BashItem == Item("tool_use", "Bash", None)

\* {"type":"human","message":{"content":"hi"}}
HumanLine == Entry("human", NotAnArray)

\* {"type":"human","message":{"content":[{"type":"tool_use","name":"Edit",
\*   "input":{"file_path":"Memory/Learnings/foo.md"}}]}}
HumanWithEdit == Entry("human", Array(<<Item("tool_use", "Edit", Some(PathLearningsFoo))>>))

\* {"type":"system","message":{"content":[{"type":"tool_use","name":"Write",
\*   "input":{"file_path":"Memory/Learnings/foo.md"}}]}}
SystemWithWrite ==
    Entry("system", Array(<<Item("tool_use", "Write", Some(PathLearningsFoo))>>))

\* {"message":{"content":[{"type":"tool_use","name":"Bash"}]}}
UntypedLine == Entry(Absent, Array(<<BashItem>>))

\* {"type":"assistant"}
AssistantNoContent == Entry("assistant", NoContent)

\* {"type":"assistant","message":{"content":"done"}}
AssistantStringContent == Entry("assistant", NotAnArray)

\* {"type":"assistant","message":{"content":[{"type":"text","text":"ok"}]}}
AssistantText == Entry("assistant", Array(<<TextItem>>))

\* one assistant turn with one Bash call
BashTurn == Entry("assistant", Array(<<BashItem>>))

\* one assistant turn with two Bash calls
TwoToolTurn == Entry("assistant", Array(<<BashItem, BashItem>>))

\* {"type":"assistant","message":{"content":[{"type":"tool_use","name":"Edit",
\*   "input":{"file_path":"Memory/Learnings/foo.md"}}]}}
EditLearningsTurn ==
    Entry("assistant", Array(<<Item("tool_use", "Edit", Some(PathLearningsFoo))>>))

\* a text item, then Write to /h/Data/Memory/Decisions/d.md
WriteDecisionsTurn ==
    Entry("assistant",
          Array(<<TextItem, Item("tool_use", "Write", Some(PathDecisionsAbs))>>))

\* Edit of src/main.rs
EditSourceTurn ==
    Entry("assistant", Array(<<Item("tool_use", "Edit", Some(PathSource))>>))

\* Edit with no input.file_path
EditNoPathTurn == Entry("assistant", Array(<<Item("tool_use", "Edit", None)>>))

\* Write to notes/Memory/Learnings: the marker's final "/" is missing
WriteNoSlashTurn ==
    Entry("assistant", Array(<<Item("tool_use", "Write", Some(PathNoSlash))>>))

\* a Bash call that carries input.file_path "Memory/Learnings/foo.md"
BashMemoryPathTurn ==
    Entry("assistant", Array(<<Item("tool_use", "Bash", Some(PathLearningsFoo))>>))

\* an item with no "type": {"name":"Edit","input":{"file_path":"Memory/Learnings/foo.md"}}
UntypedItemTurn ==
    Entry("assistant", Array(<<Item(Absent, "Edit", Some(PathLearningsFoo))>>))

SampleLines ==
    { NotJson, HumanLine, HumanWithEdit, SystemWithWrite, UntypedLine,
      AssistantNoContent, AssistantStringContent, AssistantText, BashTurn,
      TwoToolTurn, EditLearningsTurn, WriteDecisionsTurn, EditSourceTurn,
      EditNoPathTurn, WriteNoSlashTurn, BashMemoryPathTurn, UntypedItemTurn }

NotRead == [read |-> FALSE, lines |-> <<>>]

Text(lines) == [read |-> TRUE, lines |-> lines]

AnalyzeIdle ==
    /\ a_pc = "idle"
    /\ transcript = NotRead
    /\ line_no = 0
    /\ user_messages = 0
    /\ tool_using_turns = 0
    /\ has_memory_write = FALSE

PromptIdle ==
    /\ s_pc = "idle"
    /\ pattern_file = Unreadable
    /\ content = <<>>
    /\ stripped = <<>>
    /\ loaded = None
    /\ first_loaded = None
    /\ pass = 1

(***************************************************************************)
(* Pattern files of the model: up to MaxDocLines lines drawn from          *)
(* DocLines, joined by "\n" or "\r\n", with or without a final terminator. *)
(***************************************************************************)
DocLines ==
    { <<"-", "-", "-">>,           \* ---
      <<" ", "-", "-", "-", " ">>, \* a delimiter with surrounding blanks
      <<"#", " ", "T">>,           \* # T
      <<" ", "#", " ", "T">>,      \* an indented heading: not an H1 line
      <<"#", "#", " ", "S">>,      \* ## S
      <<"x">>,                     \* body text
      <<>> }                       \* an empty line

BuildDoc(ls, sep, final) == Join(ls, sep) \o (IF final THEN sep ELSE <<>>)

Docs ==
    { BuildDoc(ls, sep, final) :
        ls \in SeqsUpTo(DocLines, MaxDocLines), sep \in {LF, CRLF}, final \in BOOLEAN }

(***************************************************************************)
(* main (lines 35-103).                                                    *)
(*                                                                         *)
(* The payload on standard input is the JSON text reduced to what          *)
(* serde_json::from_str::<HookInput> reads: whether it is a JSON object,   *)
(* and for each of the four fields whether it is absent, null, a boolean,  *)
(* a string or a number.  Unknown fields are ignored by serde and are not   *)
(* modelled.                                                               *)
(***************************************************************************)
\* const USER_MSG_THRESHOLD (line 25)
USER_MSG_THRESHOLD == 4

\* const TOOL_TURN_THRESHOLD (line 24)
TOOL_TURN_THRESHOLD == 10

\* const FALLBACK_REASON (lines 27-28)
FALLBACK_REASON ==
    <<"S", "u", "b", "s", "t", "a", "n", "t", "i", "a", "l", " ", "s", "e",
      "s", "s", "i", "o", "n", " ", "w", "i", "t", "h", " ", "n", "o", " ",
      "l", "e", "a", "r", "n", "i", "n", "g", "s", " ", "c", "a", "p", "t",
      "u", "r", "e", "d", ".", " ", "C", "r", "e", "a", "t", "e", " ", "a",
      " ", "f", "i", "l", "e", " ", "i", "n", " ", "M", "e", "m", "o", "r",
      "y", "/", "L", "e", "a", "r", "n", "i", "n", "g", "s", "/", " ", "o",
      "r", " ", "M", "e", "m", "o", "r", "y", "/", "D", "e", "c", "i", "s",
      "i", "o", "n", "s", "/", " ", "b", "e", "f", "o", "r", "e", " ", "e",
      "n", "d", "i", "n", "g", ".">>

\* const PRECOMPACT_PREFIX (lines 30-31)
PRECOMPACT_PREFIX ==
    <<"B", "E", "F", "O", "R", "E", " ", "C", "O", "M", "P", "A", "C", "T",
      "I", "N", "G", " ", "U+2014", " ", "c", "a", "p", "t", "u", "r", "e", " ",
      "s", "e", "s", "s", "i", "o", "n", " ", "l", "e", "a", "r", "n", "i",
      "n", "g", "s", " ", "a", "n", "d", " ", "d", "e", "c", "i", "s", "i",
      "o", "n", "s", " ", "n", "o", "w", ".", " ">>

\* "/Data" of format!("{}/Data", home)  (line 55)
DataSubpath ==
    <<"/", "D", "a", "t", "a">>

JAbsent == [t |-> "absent", b |-> FALSE, s |-> <<>>]

JNull == [t |-> "null", b |-> FALSE, s |-> <<>>]

JBool(b) == [t |-> "bool", b |-> b, s |-> <<>>]

JStr(s) == [t |-> "string", b |-> FALSE, s |-> s]

JNum == [t |-> "number", b |-> FALSE, s |-> <<>>]

Payload(sha, cwd, path, trigger) ==
    [object |-> TRUE, stop_hook_active |-> sha, cwd |-> cwd,
     transcript_path |-> path, trigger |-> trigger]

\* Text from_str rejects whatever the fields: no JSON at all (empty input, a
\* syntax error), or a JSON value that is no map (a number, a string, null).
Garbage ==
    [object |-> FALSE, stop_hook_active |-> JAbsent, cwd |-> JAbsent,
     transcript_path |-> JAbsent, trigger |-> JAbsent]

\* #[serde(default)] stop_hook_active: bool  (lines 12-13)
BoolFieldOk(v) == v.t \in {"absent", "bool"}

BoolField(v) == v.t = "bool" /\ v.b

\* #[serde(default)] cwd: String, transcript_path: String  (lines 14-18)
StringFieldOk(v) == v.t \in {"absent", "string"}

StringField(v) == IF v.t = "string" THEN v.s ELSE <<>>

\* #[serde(default)] trigger: Option<String>  (lines 20-21): null is None
OptionFieldOk(v) == v.t \in {"absent", "null", "string"}

\* A slip: a value check, only "manual" and "auto" make a trigger.
OptionField_KnownValues(v) ==
    IF v.t = "string" /\ v.s \in {<<"m", "a", "n", "u", "a", "l">>, <<"a", "u", "t", "o">>}
    THEN Some(v.s)
    ELSE None

OptionField(v) == IF v.t = "string" THEN Some(v.s) ELSE None

HookInput(ok, sha, cwd, path, trigger) ==
    [ok |-> ok, stop_hook_active |-> sha, cwd |-> cwd, transcript_path |-> path,
     trigger |-> trigger]

\* the Err(_) of line 43; also the value of input before line 41
NoInput == HookInput(FALSE, FALSE, <<>>, <<>>, None)

\* A slip: a field of the wrong type, or text that is no object, takes the defaults.
from_str_Lenient(buf) ==
    HookInput(TRUE, BoolField(buf.stop_hook_active), StringField(buf.cwd),
              StringField(buf.transcript_path), OptionField(buf.trigger))

\* serde_json::from_str::<HookInput>(&buf)  (line 41)
from_str(buf) ==
    IF /\ buf.object
       /\ BoolFieldOk(buf.stop_hook_active)
       /\ StringFieldOk(buf.cwd)
       /\ StringFieldOk(buf.transcript_path)
       /\ OptionFieldOk(buf.trigger)
    THEN HookInput(TRUE, BoolField(buf.stop_hook_active), StringField(buf.cwd),
                   StringField(buf.transcript_path), OptionField(buf.trigger))
    ELSE NoInput

\* A slip: the reentrancy guard applied to both event kinds.
IsReentrant_AnyEvent(pre_compact, stop_hook_active) == stop_hook_active

\* !is_pre_compact && input.stop_hook_active  (line 49)
IsReentrant(pre_compact, stop_hook_active) == ~pre_compact /\ stop_hook_active

\* std::env::var("HOME").unwrap_or_default()  (line 54)
HomeOrDefault(h) == IF h.some THEN h.text ELSE <<>>

\* A slip: the data directory looked for anywhere in cwd.
InDataDir_Anywhere(cwd, h) == Contains(cwd, HomeOrDefault(h) \o DataSubpath)

\* input.cwd.starts_with(&data_prefix)  (lines 54-56, negated there)
InDataDir(cwd, h) == StartsWith(cwd, HomeOrDefault(h) \o DataSubpath)

\* A slip: && for ||, so one met threshold is enough to go on.
NotSubstantial_BothUnmet(user_msgs, tool_turns) ==
    user_msgs < USER_MSG_THRESHOLD /\ tool_turns < TOOL_TURN_THRESHOLD

\* user_messages < USER_MSG_THRESHOLD || tool_using_turns < TOOL_TURN_THRESHOLD (line 84)
NotSubstantial(user_msgs, tool_turns) ==
    user_msgs < USER_MSG_THRESHOLD \/ tool_turns < TOOL_TURN_THRESHOLD

\* A slip: the loaded prompt dropped, the fallback sentence always used.
ReasonOrFallback_Always(prompt) == FALLBACK_REASON

\* load_reflection_prompt(..).unwrap_or_else(|| FALLBACK_REASON.to_string())  (64-65, 94)
ReasonOrFallback(prompt) == IF prompt.some THEN prompt.text ELSE FALLBACK_REASON

\* json!({"decision": "block", "reason": reason})  (lines 96-99)
BlockDecision(reason) == [decision |-> "block", reason |-> reason]

\* Whether a printed object is a block decision.
IsBlock(o) == "decision" \in DOMAIN o

\* json!({"additionalContext": format!("{}{}", PRECOMPACT_PREFIX, reason)})  (67-69)
InjectContext(reason) == [additionalContext |-> PRECOMPACT_PREFIX \o reason]

\* The one transcript file of the model's file system.
TranscriptPath ==
    <<"t", ".", "j", "s", "o", "n", "l">>

\* fs::read_to_string(&input.transcript_path)  (line 76)
ReadTranscriptFile(path, file) ==
    IF path = TranscriptPath /\ file.readable THEN Text(file.lines) ELSE NotRead

(***************************************************************************)
(* Inputs of the model.                                                    *)
(***************************************************************************)
HomeDir ==
    <<"/", "h">>

CwdInData ==
    <<"/", "h", "/", "D", "a", "t", "a", "/", "x">>

CwdSibling ==
    <<"/", "h", "/", "D", "a", "t", "a", "b", "a", "s", "e">>

CwdNested ==
    <<"/", "m", "n", "t", "/", "h", "/", "D", "a", "t", "a", "/", "x">>

CwdRootData ==
    <<"/", "D", "a", "t", "a", "/", "x">>

TriggerManual ==
    <<"m", "a", "n", "u", "a", "l">>

TriggerAuto ==
    <<"a", "u", "t", "o">>

ScenarioDPrompt ==
    <<"-", "-", "-", "\n", "t", "i", "t", "l", "e", ":", " ", "x", "\n", "-",
      "-", "-", "\n", "#", " ", "R", "e", "f", "l", "e", "c", "t", "\n", "\n",
      "W", "r", "i", "t", "e", " ", "i", "t", " ", "d", "o", "w", "n", ".",
      "\n">>

TitleOnlyPrompt ==
    <<"#", " ", "R", "e", "f", "l", "e", "c", "t", "\n">>

Rep(x, n) == [i \in 1..n |-> x]

HumanCounts == {0} \cup ((USER_MSG_THRESHOLD - 1)..MaxHumanLines)

ToolCounts == {0} \cup ((TOOL_TURN_THRESHOLD - 2)..MaxToolTurns)

\* h human lines, t one-call assistant turns, then nothing, an Edit under
\* Memory/Learnings/, or an Edit of a source file.
SessionTranscripts ==
    { Rep(HumanLine, h) \o Rep(BashTurn, t) \o tail :
        h \in HumanCounts, t \in ToolCounts,
        tail \in {<<>>, <<EditLearningsTurn>>, <<EditSourceTurn>>} }

WellTypedPayloads ==
    { Payload(sha, cwd, path, trigger) :
        sha \in {JAbsent, JBool(FALSE), JBool(TRUE)},
        cwd \in {JAbsent, JStr(CwdInData), JStr(CwdSibling), JStr(CwdNested),
                 JStr(CwdRootData)},
        path \in {JAbsent, JStr(TranscriptPath)},
        trigger \in {JAbsent, JNull, JStr(TriggerManual), JStr(TriggerAuto), JStr(<<>>)} }

\* One field of a type HookInput does not accept, the rest as in a session under
\* the data directory.
MistypedPayloads ==
    { Payload(JStr(<<"n", "o">>), JStr(CwdInData), JStr(TranscriptPath), JAbsent),
      Payload(JBool(FALSE), JNull, JStr(TranscriptPath), JStr(TriggerAuto)),
      Payload(JBool(FALSE), JStr(CwdInData), JNum, JAbsent),
      Payload(JBool(FALSE), JStr(CwdInData), JStr(TranscriptPath), JNum) }

Payloads == WellTypedPayloads \cup MistypedPayloads \cup {Garbage}

StdinUnreadable == [readable |-> FALSE, payload |-> Garbage]

Stdin(p) == [readable |-> TRUE, payload |-> p]

MainIdle ==
    /\ pc = "idle"
    /\ stdin = StdinUnreadable
    /\ home = None
    /\ transcript_file = Unreadable
    /\ input = NoInput
    /\ is_pre_compact = FALSE
    /\ out = <<>>
    /\ exit_code = "running"
    /\ invocation = 1

\* The process starts: nothing read, nothing printed.
Init ==
    /\ pc = "start"
    /\ stdin \in {StdinUnreadable} \cup { Stdin(p) : p \in Payloads }
    /\ home \in {None, Some(HomeDir)}
    /\ transcript_file \in
         {[readable |-> FALSE, lines |-> <<>>]}
         \cup { [readable |-> TRUE, lines |-> t] : t \in SessionTranscripts }
    /\ input = NoInput
    /\ is_pre_compact = FALSE
    /\ out = <<>>
    /\ exit_code = "running"
    /\ invocation = 1
    /\ pattern_file \in {Unreadable, File(ScenarioDPrompt), File(TitleOnlyPrompt)}
    /\ s_pc = "idle"
    /\ content = <<>>
    /\ stripped = <<>>
    /\ loaded = None
    /\ first_loaded = None
    /\ pass = 1
    /\ AnalyzeIdle

mainLocals == <<input, is_pre_compact, out, loaded, analyzeVars>>

environment ==
    <<stdin, home, transcript_file, pattern_file, invocation,
      s_pc, content, stripped, first_loaded, pass>>

\* return ExitCode::SUCCESS
ReturnSuccess ==
    /\ pc' = "exit"
    /\ exit_code' = "SUCCESS"

\* std::io::stdin().read_to_string(&mut buf)  (lines 36-39)
ReadStdin ==
    /\ pc = "start"
    /\ IF stdin.readable
       THEN pc' = "parse" /\ exit_code' = exit_code
       ELSE ReturnSuccess
    /\ UNCHANGED <<mainLocals, environment>>

\* serde_json::from_str::<HookInput>(&buf); let is_pre_compact  (lines 41-46)
ParseInput ==
    /\ pc = "parse"
    /\ IF from_str(stdin.payload).ok
       THEN /\ input' = from_str(stdin.payload)
            /\ is_pre_compact' = from_str(stdin.payload).trigger.some
            /\ pc' = "reentrancy"
            /\ exit_code' = exit_code
       ELSE /\ ReturnSuccess
            /\ UNCHANGED <<input, is_pre_compact>>
    /\ UNCHANGED <<out, loaded, analyzeVars, environment>>

\* Guard: prevent infinite loop (Stop only)  (lines 48-51)
ReentrancyGuard ==
    /\ pc = "reentrancy"
    /\ IF IsReentrant(is_pre_compact, input.stop_hook_active)
       THEN ReturnSuccess
       ELSE pc' = "scope" /\ exit_code' = exit_code
    /\ UNCHANGED <<mainLocals, environment>>

\* Guard: only fire inside ~/Data  (lines 53-58), then the branch of line 63
ScopeGuard ==
    /\ pc = "scope"
    /\ IF ~InDataDir(input.cwd, home)
       THEN ReturnSuccess
       ELSE /\ pc' = IF is_pre_compact THEN "pre_compact" ELSE "stop"
            /\ exit_code' = exit_code
    /\ UNCHANGED <<mainLocals, environment>>

\* if is_pre_compact { ... println!; return }  (lines 63-72)
PreCompact ==
    /\ pc = "pre_compact"
    /\ loaded' = load_reflection_prompt(pattern_file)
    /\ out' = Append(out, InjectContext(ReasonOrFallback(load_reflection_prompt(pattern_file))))
    /\ ReturnSuccess
    /\ UNCHANGED <<input, is_pre_compact, analyzeVars, environment>>

\* let transcript = match fs::read_to_string(&input.transcript_path)  (lines 76-79)
ReadTranscript ==
    /\ pc = "stop"
    /\ IF ReadTranscriptFile(input.transcript_path, transcript_file).read
       THEN /\ transcript' = ReadTranscriptFile(input.transcript_path, transcript_file)
            /\ pc' = "analyze"
            /\ exit_code' = exit_code
       ELSE /\ ReturnSuccess
            /\ transcript' = transcript
    /\ UNCHANGED <<input, is_pre_compact, out, loaded, a_pc, line_no, user_messages,
                   tool_using_turns, has_memory_write, environment>>

\* analyze_transcript(&transcript), then "Not substantial"  (lines 81-86)
AnalyzeAndGate ==
    /\ pc = "analyze"
    /\ LET r == analyze_transcript(transcript.lines)
       IN  /\ user_messages' = r.user_messages
           /\ tool_using_turns' = r.tool_using_turns
           /\ has_memory_write' = r.has_memory_write
           /\ IF NotSubstantial(r.user_messages, r.tool_using_turns)
              THEN ReturnSuccess
              ELSE pc' = "memory" /\ exit_code' = exit_code
    /\ UNCHANGED <<input, is_pre_compact, out, loaded, a_pc, transcript, line_no,
                   environment>>

\* Substantial + memory writes -> allow stop  (lines 88-91)
MemoryGate ==
    /\ pc = "memory"
    /\ IF has_memory_write
       THEN ReturnSuccess
       ELSE pc' = "block" /\ exit_code' = exit_code
    /\ UNCHANGED <<mainLocals, environment>>

\* Substantial + no memory writes -> block and prompt reflection  (lines 93-102)
Block ==
    /\ pc = "block"
    /\ loaded' = load_reflection_prompt(pattern_file)
    /\ out' = Append(out, BlockDecision(ReasonOrFallback(load_reflection_prompt(pattern_file))))
    /\ ReturnSuccess
    /\ UNCHANGED <<input, is_pre_compact, analyzeVars, environment>>

\* The host acts on a block by continuing the session and, at its next stop, runs
\* the hook again with stop_hook_active = true (lines 11-13): a new process over
\* the same files, whose standard output starts empty.
Reinvoke ==
    /\ pc = "exit"
    /\ invocation = 1
    /\ out /= <<>>
    /\ IsBlock(out[1])
    /\ invocation' = 2
    /\ stdin' = Stdin([stdin.payload EXCEPT !.stop_hook_active = JBool(TRUE)])
    /\ pc' = "start"
    /\ exit_code' = "running"
    /\ input' = NoInput
    /\ is_pre_compact' = FALSE
    /\ out' = <<>>
    /\ loaded' = None
    /\ transcript' = NotRead
    /\ user_messages' = 0
    /\ tool_using_turns' = 0
    /\ has_memory_write' = FALSE
    /\ UNCHANGED <<home, transcript_file, pattern_file, a_pc, line_no,
                   s_pc, content, stripped, first_loaded, pass>>

Next ==
    \/ ReadStdin
    \/ ParseInput
    \/ ReentrancyGuard
    \/ ScopeGuard
    \/ PreCompact
    \/ ReadTranscript
    \/ AnalyzeAndGate
    \/ MemoryGate
    \/ Block
    \/ Reinvoke

Spec == Init /\ [][Next]_vars

(***************************************************************************)
(* analyze_transcript as a state machine: one transcript line per step.    *)
(***************************************************************************)
\* fn analyze_transcript(transcript: &str): the three let mut (lines 107-109)
AnalyzeInit ==
    /\ a_pc = "scan"
    /\ transcript \in { Text(t) : t \in SeqsUpTo(SampleLines, MaxLines) }
    /\ line_no = 0
    /\ user_messages = 0
    /\ tool_using_turns = 0
    /\ has_memory_write = FALSE
    /\ PromptIdle
    /\ MainIdle

\* one iteration of the for loop (lines 111-172)
ScanLine ==
    /\ a_pc = "scan"
    /\ line_no < Len(transcript.lines)
    /\ LET acc == AnalyzeLine(Counters(user_messages, tool_using_turns, has_memory_write),
                              transcript.lines[line_no + 1])
       IN  /\ user_messages' = acc.user_messages
           /\ tool_using_turns' = acc.tool_using_turns
           /\ has_memory_write' = acc.has_memory_write
    /\ line_no' = line_no + 1
    /\ UNCHANGED <<a_pc, transcript, promptVars, mainVars>>

\* (user_messages, tool_using_turns, has_memory_write)  (line 174)
AnalyzeReturn ==
    /\ a_pc = "scan"
    /\ line_no = Len(transcript.lines)
    /\ a_pc' = "done"
    /\ UNCHANGED <<transcript, line_no, user_messages, tool_using_turns,
                   has_memory_write, promptVars, mainVars>>

AnalyzeNext == ScanLine \/ AnalyzeReturn

SpecAnalyze == AnalyzeInit /\ [][AnalyzeNext]_vars

(***************************************************************************)
(* load_reflection_prompt as a state machine.                              *)
(***************************************************************************)
PromptInit ==
    /\ s_pc = "read"
    /\ pattern_file \in {Unreadable} \cup { File(d) : d \in Docs }
    /\ content = <<>>
    /\ stripped = <<>>
    /\ loaded = None
    /\ first_loaded = None
    /\ pass = 1
    /\ AnalyzeIdle
    /\ MainIdle

\* let content = fs::read_to_string(pattern_path).ok()?;  (line 182)
ReadPattern ==
    /\ s_pc = "read"
    /\ IF pattern_file.readable
       THEN /\ content' = pattern_file.text
            /\ s_pc' = "strip"
            /\ loaded' = loaded
       ELSE /\ content' = content
            /\ s_pc' = "done"
            /\ loaded' = None
    /\ UNCHANGED <<pattern_file, stripped, first_loaded, pass, analyzeVars, mainVars>>

\* let stripped = strip_frontmatter_and_h1(&content);  (line 183)
StripPattern ==
    /\ s_pc = "strip"
    /\ stripped' = strip_frontmatter_and_h1(content)
    /\ s_pc' = "trim"
    /\ UNCHANGED <<pattern_file, content, loaded, first_loaded, pass, analyzeVars, mainVars>>

\* lines 185-189
ReturnPrompt ==
    /\ s_pc = "trim"
    /\ loaded' = TrimToOption(stripped)
    /\ s_pc' = "done"
    /\ UNCHANGED <<pattern_file, content, stripped, first_loaded, pass, analyzeVars, mainVars>>

\* The text a first pass returned is stored as the pattern file and loaded again.
Resanitize ==
    /\ s_pc = "done"
    /\ pass = 1
    /\ loaded.some
    /\ first_loaded' = loaded
    /\ pattern_file' = File(loaded.text)
    /\ pass' = 2
    /\ s_pc' = "read"
    /\ content' = <<>>
    /\ stripped' = <<>>
    /\ loaded' = None
    /\ UNCHANGED <<analyzeVars, mainVars>>

PromptNext == ReadPattern \/ StripPattern \/ ReturnPrompt \/ Resanitize

SpecPrompt == PromptInit /\ [][PromptNext]_vars

(***************************************************************************)
(* Claims about the prompt sanitizer, checked under SpecPrompt.            *)
(***************************************************************************)
\* The k-th element of a finite set of numbers, in increasing order.
Nth(K, k) == CHOOSE j \in K : Cardinality({m \in K : m <= j}) = k

\* The lines of L at the indices K, in original order.
Pick(L, K) == [k \in 1..Cardinality(K) |-> L[Nth(K, k)]]

\* The last index of the frontmatter span of L (0: there is none).
FrontmatterEnd(L) ==
    IF L /= <<>> /\ Trim(L[1]) = <<"-", "-", "-">>
    THEN LET closing == {j \in 2..Len(L) : Trim(L[j]) = <<"-", "-", "-">>}
         IN  IF closing = {} THEN Len(L) ELSE Min(closing)
    ELSE 0

\* The indices of L that survive: outside the frontmatter span, and not the first
\* line there that starts with "# ".
KeptIndices(L) ==
    LET body == (FrontmatterEnd(L) + 1)..Len(L)
        h1s  == {j \in body : StartsWith(L[j], <<"#", " ">>)}
    IN  IF h1s = {} THEN body ELSE body \ {Min(h1s)}

\* C10: strip_frontmatter_and_h1 returns the document's lines, in order, joined by
\* "\n", minus the frontmatter span (first line trims to "---", through the next
\* line that trims to "---", or to the end if there is none) and minus the first
\* line outside that span that starts with "# "; every other line is retained.
C10_StripKeepsAllOtherLines ==
    (s_pc \in {"trim", "done"} /\ pattern_file.readable) =>
        stripped = Join(Pick(Lines(content), KeptIndices(Lines(content))), <<"\n">>)

\* C10's case: frontmatter opened by a blank-padded delimiter, a title after it,
\* and a second "# " line, which is retained.
C10_Witness ==
    /\ s_pc = "trim"
    /\ Lines(content) = << <<" ", "-", "-", "-", " ">>, <<"-", "-", "-">>,
                           <<"#", " ", "T">>, <<"#", " ", "T">> >>
    /\ stripped = <<"#", " ", "T">>

\* A text with nothing for the sanitizer to remove: no carriage return, a first
\* line that does not trim to "---", and no line at all that starts with "# ".
NothingToStrip(t) ==
    /\ \A i \in 1..Len(t) : t[i] /= "\r"
    /\ Lines(t) /= <<>> => Trim(Lines(t)[1]) /= <<"-", "-", "-">>
    /\ \A j \in 1..Len(Lines(t)) : ~StartsWith(Lines(t)[j], <<"#", " ">>)

\* C9 as stated: sanitizing the sanitized text of any document returns it
\* unchanged, trim(strip(trim(strip(d)))) = trim(strip(d)).
C9_SanitizeIdempotent ==
    (pass = 2 /\ s_pc = "done") => loaded = first_loaded

\* C9 as amended: a text with no carriage return, whose first line does not trim
\* to "---" and none of whose lines starts with "# ", is returned unchanged modulo
\* the surrounding trim; so a second sanitizing changes nothing exactly when the
\* first one left such a text.
C9_NothingToStripIsUnchanged ==
    (s_pc = "done" /\ pattern_file.readable /\ NothingToStrip(pattern_file.text)) =>
        /\ loaded.text = Trim(pattern_file.text)
        /\ loaded.some <=> Trim(pattern_file.text) /= <<>>
        /\ pass = 2 => loaded = first_loaded

\* C9's case: a second pass over a sanitized text that has nothing left to strip.
C9_Witness ==
    /\ pass = 2
    /\ s_pc = "done"
    /\ NothingToStrip(pattern_file.text)
    /\ loaded.some
    /\ loaded = first_loaded

(***************************************************************************)
(* Claims about analyze_transcript, checked under SpecAnalyze.             *)
(***************************************************************************)
\* The lines the loop has consumed so far.
Scanned == SubSeq(transcript.lines, 1, line_no)

\* The indices of the parseable lines of ls whose "type" is "assistant".
AssistantIndices(ls) == {i \in 1..Len(ls) : ls[i].json /\ ls[i].type = "assistant"}

\* The content items of an assistant turn (none unless message.content is a list).
TurnItems(line) == IF line.content.kind = "array" THEN line.content.items ELSE <<>>

\* An Edit/Write tool-use item whose file_path contains one of the two markers.
IsMemoryWriteItem(item) ==
    /\ item.type = "tool_use"
    /\ item.name \in {"Edit", "Write"}
    /\ item.file_path.some
    /\ \/ Contains(item.file_path.text, MemoryLearnings)
       \/ Contains(item.file_path.text, MemoryDecisions)

\* C7: at every point of the scan, and so on return, has_memory_write is true iff
\* some tool-use item of an assistant turn read so far is an Edit or Write whose
\* input.file_path contains "Memory/Learnings/" or "Memory/Decisions/"; items of
\* other tools, items with no path or an unmarked path never set it; and once it
\* is true no later line resets it.
C7_MemoryWriteIffMarkedEdit ==
    /\ [](has_memory_write <=>
            \E i \in AssistantIndices(Scanned) :
                \E k \in 1..Len(TurnItems(Scanned[i])) :
                    IsMemoryWriteItem(TurnItems(Scanned[i])[k]))
    /\ [][has_memory_write => has_memory_write']_vars

\* C7's case: a Write under Memory/Decisions/ in the first line, then two more
\* lines (an Edit elsewhere, an unparseable line); the flag is still set on return.
C7_Witness ==
    /\ a_pc = "done"
    /\ transcript.lines = <<WriteDecisionsTurn, EditSourceTurn, NotJson>>
    /\ has_memory_write

\* C8: tool_using_turns is the number of parseable assistant-typed lines whose
\* message.content is a list holding at least one item of type "tool_use", each
\* such line counted once; so it never exceeds the number of assistant-typed
\* lines, and every other line contributes 0 without ending the scan.
C8_ToolTurnsCountedOncePerTurn ==
    /\ tool_using_turns =
         Cardinality({i \in AssistantIndices(Scanned) :
                        \E k \in 1..Len(TurnItems(Scanned[i])) :
                            TurnItems(Scanned[i])[k].type = "tool_use"})
    /\ tool_using_turns <= Cardinality(AssistantIndices(Scanned))
    /\ a_pc = "done" => line_no = Len(transcript.lines)

\* C8's case: an unparseable line, a turn with two tool calls, a text-only turn:
\* the scan reaches the end and counts one turn.
C8_Witness ==
    /\ a_pc = "done"
    /\ transcript.lines = <<NotJson, TwoToolTurn, AssistantText>>
    /\ tool_using_turns = 1

(***************************************************************************)
(* Claims about main, checked under Spec.  The cases are stated over what  *)
(* the process was given (standard input, HOME, the files), not over what  *)
(* main computed from it.                                                  *)
(***************************************************************************)
\* The payload is a JSON object each of whose four fields, when present, has a
\* type HookInput accepts (trigger may also be null).
ExpectedShape(p) ==
    /\ p.object
    /\ p.stop_hook_active.t \in {"absent", "bool"}
    /\ p.cwd.t \in {"absent", "string"}
    /\ p.transcript_path.t \in {"absent", "string"}
    /\ p.trigger.t \in {"absent", "null", "string"}

\* Standard input was readable and held a payload of the expected shape.
Understood == stdin.readable /\ ExpectedShape(stdin.payload)

\* cwd begins with <HOME>/Data (HOME empty when unset, cwd empty when absent).
UnderDataRoot ==
    LET cwd  == IF stdin.payload.cwd.t = "string" THEN stdin.payload.cwd.s ELSE <<>>
        root == (IF home.some THEN home.text ELSE <<>>) \o <<"/", "D", "a", "t", "a">>
    IN  Len(root) <= Len(cwd) /\ \A i \in 1..Len(root) : cwd[i] = root[i]

StopHookActive ==
    stdin.payload.stop_hook_active.t = "bool" /\ stdin.payload.stop_hook_active.b

\* transcript_path names the transcript file and the file can be read.
TranscriptReadable ==
    /\ stdin.payload.transcript_path.t = "string"
    /\ stdin.payload.transcript_path.s = TranscriptPath
    /\ transcript_file.readable

\* The three signals, counted on the transcript file itself.
HumanCount(ls) == Cardinality({i \in 1..Len(ls) : ls[i].json /\ ls[i].type = "human"})

ToolTurnCount(ls) ==
    Cardinality({i \in AssistantIndices(ls) :
                   \E k \in 1..Len(TurnItems(ls[i])) : TurnItems(ls[i])[k].type = "tool_use"})

MemoryWriteSeen(ls) ==
    \E i \in AssistantIndices(ls) :
        \E k \in 1..Len(TurnItems(ls[i])) : IsMemoryWriteItem(TurnItems(ls[i])[k])

WriteItDown ==
    <<"W", "r", "i", "t", "e", " ", "i", "t", " ", "d", "o", "w", "n", ".">>

\* The reason text: the Prompt Loader's result when there is one, else the fallback.
ExpectedReason == IF loaded.some THEN loaded.text ELSE FALLBACK_REASON

\* What the Prompt Loader returns for the pattern files of Init.
LoaderResultAsExpected ==
    /\ pattern_file = File(ScenarioDPrompt) => loaded = Some(WriteItDown)
    /\ pattern_file \in {Unreadable, File(TitleOnlyPrompt)} => loaded = None

\* C1: a stop event (no trigger field) that passes both guards and whose
\* transcript is readable ends with the one output {"decision":"block","reason":r}
\* iff the transcript has at least 4 human lines, at least 10 tool-using turns and
\* no memory write, r being the loaded prompt or else the fallback sentence; in
\* every other case it ends with no output.
C1_BlockIffSubstantialWithoutMemoryWrite ==
    (/\ pc = "exit"
     /\ Understood
     /\ stdin.payload.trigger.t = "absent"
     /\ ~StopHookActive
     /\ UnderDataRoot
     /\ TranscriptReadable) =>
        /\ user_messages = HumanCount(transcript_file.lines)
        /\ tool_using_turns = ToolTurnCount(transcript_file.lines)
        /\ has_memory_write = MemoryWriteSeen(transcript_file.lines)
        /\ IF /\ user_messages >= 4
              /\ tool_using_turns >= 10
              /\ ~has_memory_write
           THEN /\ out = << [decision |-> "block", reason |-> ExpectedReason] >>
                /\ LoaderResultAsExpected
           ELSE out = <<>>

\* C1's case (scenario B): 5 human lines, 12 tool-using turns, no memory write,
\* no pattern file: the block decision with the fallback sentence.
C1_Witness ==
    /\ pc = "exit"
    /\ invocation = 1
    /\ user_messages = 5
    /\ tool_using_turns = 12
    /\ ~has_memory_write
    /\ ~pattern_file.readable
    /\ out = << [decision |-> "block", reason |-> FALLBACK_REASON] >>

\* C2: a compaction event (a string trigger) whose cwd passes the scope guard
\* always ends with exactly one output {"additionalContext": prefix + reason},
\* reason being the loaded prompt or else the fallback sentence, whatever
\* stop_hook_active, transcript_path and the transcript file are; the transcript
\* is never read and never analysed on this path.
C2_CompactionAlwaysInjects ==
    (/\ pc = "exit"
     /\ Understood
     /\ stdin.payload.trigger.t = "string"
     /\ UnderDataRoot) =>
        /\ out = << [additionalContext |-> PRECOMPACT_PREFIX \o ExpectedReason] >>
        /\ LoaderResultAsExpected
        /\ transcript = NotRead
        /\ user_messages = 0 /\ tool_using_turns = 0 /\ ~has_memory_write

\* C2's case (scenario D), with stop_hook_active = true and a transcript that
\* cannot be read: the prefix followed by "Write it down.".
C2_Witness ==
    /\ pc = "exit"
    /\ stdin.payload.trigger = JStr(TriggerAuto)
    /\ StopHookActive
    /\ ~transcript_file.readable
    /\ pattern_file = File(ScenarioDPrompt)
    /\ out = << [additionalContext |-> PRECOMPACT_PREFIX \o WriteItDown] >>

\* The payload is an object whose fields other than trigger have accepted types.
OtherFieldsAccepted ==
    /\ stdin.readable
    /\ stdin.payload.object
    /\ stdin.payload.stop_hook_active.t \in {"absent", "bool"}
    /\ stdin.payload.cwd.t \in {"absent", "string"}
    /\ stdin.payload.transcript_path.t \in {"absent", "string"}

\* C3 as stated: a payload with a trigger field, whatever its value (a string,
\* null, a non-string), is treated as a compaction event, and a payload without
\* one as a stop event.
C3_TriggerPresenceDecidesKind ==
    (pc = "exit" /\ OtherFieldsAccepted) =>
        /\ stdin.payload.trigger.t /= "absent" => (input.ok /\ is_pre_compact)
        /\ stdin.payload.trigger.t = "absent" => (input.ok /\ ~is_pre_compact)

\* C3 as amended: a trigger that is a JSON string, whatever the string, makes a
\* compaction event; an absent trigger and a null trigger make a stop event; a
\* trigger of any other type makes the payload unparseable, and the run ends with
\* no output as neither kind.
C3_StringTriggerDecidesKind ==
    (pc = "exit" /\ OtherFieldsAccepted) =>
        /\ stdin.payload.trigger.t = "string" => (input.ok /\ is_pre_compact)
        /\ stdin.payload.trigger.t \in {"absent", "null"} => (input.ok /\ ~is_pre_compact)
        /\ stdin.payload.trigger.t \notin {"absent", "null", "string"} =>
               (~input.ok /\ ~is_pre_compact /\ out = <<>>)

\* C3's case: "trigger":"" (neither "manual" nor "auto") under the data root is
\* handled as a compaction event.
C3_Witness ==
    /\ pc = "exit"
    /\ stdin.payload.trigger = JStr(<<>>)
    /\ input.ok
    /\ is_pre_compact
    /\ out /= <<>>

\* C4: a stop event with stop_hook_active = true ends with no output, whatever cwd
\* and the transcript are; so the run the host starts with stop_hook_active = true
\* after a block never blocks again; and the guard does not apply to compaction
\* events, which still inject with stop_hook_active = true.
C4_ReentrancyGuard ==
    /\ (/\ pc = "exit"
        /\ Understood
        /\ stdin.payload.trigger.t = "absent"
        /\ StopHookActive) => out = <<>>
    /\ (pc = "exit" /\ invocation = 2) => out = <<>>
    /\ (/\ pc = "exit"
        /\ Understood
        /\ stdin.payload.trigger.t = "string"
        /\ StopHookActive
        /\ UnderDataRoot) => out /= <<>>

\* C4's case: the hook blocked, the host ran it again with stop_hook_active = true
\* over a transcript that meets both thresholds with no memory write, and the
\* second run ended silently.
C4_Witness ==
    /\ pc = "exit"
    /\ invocation = 2
    /\ StopHookActive
    /\ UnderDataRoot
    /\ TranscriptReadable
    /\ HumanCount(transcript_file.lines) >= 4
    /\ ToolTurnCount(transcript_file.lines) >= 10
    /\ ~MemoryWriteSeen(transcript_file.lines)
    /\ out = <<>>

C6_FailOpen ==
    /\ exit_code \in {"running", "SUCCESS"}
    /\ pc = "exit" <=> exit_code = "SUCCESS"
    /\ Len(out) <= 1
    /\ (pc = "exit" /\ ~Understood) => out = <<>>
    /\ (/\ pc = "exit"
        /\ Understood
        /\ stdin.payload.trigger.t \in {"absent", "null"}
        /\ ~TranscriptReadable) => out = <<>>
    /\ (out /= <<>> /\ ~pattern_file.readable) =>
          out[1] \in { [decision |-> "block", reason |-> FALLBACK_REASON],
                       [additionalContext |-> PRECOMPACT_PREFIX \o FALLBACK_REASON] }

\* C6's case: "trigger": 5 in a payload that is otherwise a stop event under the
\* data root with a transcript meeting both thresholds: no output, status success.
C6_Witness ==
    /\ pc = "exit"
    /\ stdin.readable
    /\ stdin.payload.trigger = JNum
    /\ UnderDataRoot
    /\ TranscriptReadable
    /\ HumanCount(transcript_file.lines) >= 4
    /\ ToolTurnCount(transcript_file.lines) >= 10
    /\ ~MemoryWriteSeen(transcript_file.lines)
    /\ out = <<>>
    /\ exit_code = "SUCCESS"

====
